---------------------------- MODULE Spec2Model ----------------------------
(***************************************************************************)
(* runtime-abi-check: the symbol store and the recursive scan of an ELF    *)
(* file's import graph (src/src/runtime-abi-check/store.go).               *)
(*                                                                         *)
(* One top-level ScanPath call on a freshly constructed SymbolStore.  The  *)
(* file system and the ELF reader (debug/elf) are the environment: what a  *)
(* stat, an elf.Open or a reader call returns is unconstrained the first   *)
(* time the program asks and fixed from then on (files do not change       *)
(* during a run).  `disk` holds what has been observed so far.             *)
(***************************************************************************)
EXTENDS Integers, Sequences, FiniteSets, TLC

\* ------------------------------------------------------------------ bounds

\* Search directories modelled (a prefix of systemLibraries).
NumDirs == 2
\* Deepest recursion of scanELF the model follows.
MaxDepth == 4
\* Longest list ImportedLibraries returns for the root file.
MaxImports == 2
\* Longest list ImportedSymbols returns.
MaxImportedSyms == 2

\* ---------------------------------------------------------------- universe

\* Library names (basenames); the root file is named "A".
Names == {"A", "B", "C"}
\* elf.Machine values.
Machines == {"EM_X86_64", "EM_386"}

\* systemLibraries, by position in the list.
systemLibraries == [d \in 1..NumDirs |-> d]
\* The directory of the root file: not one of the search directories.
RootDir == 0
\* filepath.Join(dir, name)
Join(dir, name) == <<dir, name>>
\* filepath.Base(path)
Base(path) == path[2]
RootPath == Join(RootDir, "A")

\* Sequences over S of length at most n.
SeqsUpTo(S, n) == UNION {[1..k -> S] : k \in 0..n}
\* The elements of a sequence.
Range(s) == {s[k] : k \in 1..Len(s)}
NoRepeat(s) == \A a, b \in 1..Len(s) : s[a] = s[b] => a = b

\* What a reader call (ImportedLibraries, DynamicSymbols, ImportedSymbols)
\* gave: not asked yet, an error, or a list.
Unknown == [known |-> FALSE, err |-> FALSE, v |-> <<>>]
ReadErr == [known |-> TRUE, err |-> TRUE, v |-> <<>>]
ReadOk(v) == [known |-> TRUE, err |-> FALSE, v |-> v]

\* A file system entry as os.Stat and elf.Open see it.
Status == {"absent", "notregular", "badelf"} \cup Machines
NoFile == [st |-> "?", libs |-> Unknown, provides |-> Unknown, syms |-> Unknown]


\* The environments a run is checked in, kept apart so that the state space
\* is their sum: "graph" varies the import graph (the root imports up to
\* MaxImports libraries, a library one fewer) over a plain file system (a
\* library is in the first search directory or nowhere); "symbols" varies the
\* exported and the imported symbols of a root and the library it imports;
\* "disk" varies what the search directories hold.
Envs == {"graph", "symbols", "disk"}

\* ImportedLibraries: the lists the reader may return.
LibLists(e, path) ==
    LET n == IF e = "symbols"
             THEN (IF path = RootPath THEN MaxImports - 1 ELSE MaxImports - 2)
             ELSE (IF path = RootPath THEN MaxImports ELSE MaxImports - 1)
    IN  {s \in SeqsUpTo(Names, n) : NoRepeat(s)}
\* DynamicSymbols: the lists the reader may return.
SymLists(e) ==
    CASE e = "graph" -> {<<>>, <<"f", "g">>}
      [] e = "symbols" -> {<<>>, <<"f">>, <<"g", "g">>}
      [] OTHER -> {<<"f">>}
\* ImportedSymbols: the lists the reader may return.
RefLists(e, path) ==
    CASE e = "graph" ->
            SeqsUpTo([Name : {"f", "h"}, Library : {"", "C"}], MaxImportedSyms - 1)
      [] e = "symbols" ->
            {s \in SeqsUpTo([Name : {"f", "g"}, Library : {"", "B"}], MaxImportedSyms) :
                NoRepeat(s)}
      [] OTHER -> {<<>>, <<[Name |-> "h", Library |-> ""]>>}

\* -------------------------------------------------------------------- state

VARIABLES
    env,        \* the environment the run is in (never changes)
    disk,       \* the file system and the files' contents, as observed
    symbols,    \* SymbolStore.symbols: Machine -> library name -> symbol set
    stack,      \* the activations of scanELF, outermost first
    handles,    \* every *elf.File opened: its path and how often it was closed
    log,        \* what the run has done, in order
    state,      \* "init" | "running" | "done": where ScanPath is
    result      \* the error ScanPath returned (NoErr: nil)

vars == <<env, disk, symbols, stack, handles, log, state, result>>

NoErr == [kind |-> "nil", arg |-> ""]
Err(kind, arg) == [kind |-> kind, arg |-> arg]

\* f with key k set to v (a Go map assignment).
Put(f, k, v) == [x \in DOMAIN f \cup {k} |-> IF x = k THEN v ELSE f[x]]

Top == stack[Len(stack)]
SetTop(fr) == [stack EXCEPT ![Len(stack)] = fr]

\* NewSymbolStore()
NewSymbolStore == << >>

Init ==
    /\ env \in Envs
    /\ disk = << >>
    /\ symbols = NewSymbolStore
    /\ stack = <<>>
    /\ handles = <<>>
    /\ log = <<>>
    /\ state = "init"
    /\ result = NoErr

\* What is known of the file at path p.
File(p) == IF p \in DOMAIN disk THEN disk[p] ELSE NoFile

\* What the environment may answer where the run has not looked yet.
Observe(known, choices) == IF known.known THEN {known} ELSE choices
ObserveStatus(st, choices) == IF st = "?" THEN choices ELSE {st}

\* An activation of scanELF whose import loop starts at the second import.
FrameFromSecond(path, h, m) ==
    [path |-> path, h |-> h, m |-> m, pc |-> "enter", i |-> 2, j |-> 1,
     err |-> NoErr,
     seen |-> IF m \in DOMAIN symbols THEN DOMAIN symbols[m] ELSE {}]

\* A fresh activation of scanELF(path, file), file being handle h.
Frame(path, h, m) ==
    [path |-> path, h |-> h, m |-> m, pc |-> "enter", i |-> 1, j |-> 1,
     err |-> NoErr,
     seen |-> IF m \in DOMAIN symbols THEN DOMAIN symbols[m] ELSE {}]

\* Events of the log.
Ev(op, name, arg, lib, dir, ok, diag) ==
    [op |-> op, name |-> name, arg |-> arg, lib |-> lib, dir |-> dir, ok |-> ok,
     diag |-> diag]

\* --------------------------------------------------------------- the store

\* hasLibrary with the lookup of the name lost: no library is ever seen.
hasLibraryNever(store, name, m) ==
    IF m \notin DOMAIN store
    THEN FALSE
    ELSE FALSE /\ name \in DOMAIN store[m]

\* hasLibrary(name, m)
hasLibrary(store, name, m) ==
    IF m \notin DOMAIN store
    THEN FALSE
    ELSE name \in DOMAIN store[m]

\* storeSymbol filtering every symbol out.
storeSymbolFiltered(store, name, m, sym) ==
    [store EXCEPT ![m][name] = @ \ {sym}]

\* storeSymbol(name, file, sym): s.symbols[Machine][name][sym.Name] = true
storeSymbol(store, name, m, sym) ==
    [store EXCEPT ![m][name] = @ \cup {sym}]

\* for i := range providesSymbols { s.storeSymbol(name, file, &providesSymbols[i]) }
RECURSIVE storeSymbols(_, _, _, _, _)
storeSymbols(store, name, m, providesSymbols, k) ==
    IF k > Len(providesSymbols)
    THEN store
    ELSE storeSymbols(storeSymbol(store, name, m, providesSymbols[k]),
                      name, m, providesSymbols, k + 1)

\* The machine's partition made anew whether or not there is one already.
ensureMachineAnew(store, m) == Put(store, m, << >>)

\* scanELF, lines 178-181: make sure there is a bucket for the Machine.
ensureMachine(store, m) ==
    IF m \in DOMAIN store THEN store ELSE Put(store, m, << >>)

\* The file's own exports with the bucket made whether or not there are any.
recordExportsAlways(store, name, m, providesSymbols) ==
    storeSymbols([store EXCEPT ![m] = Put(@, name, {})], name, m, providesSymbols, 1)

\* The file's own exports with the loop over them starting one too far.
recordExportsFromSecond(store, name, m, providesSymbols) ==
    LET withBucket == IF Len(providesSymbols) > 0
                      THEN [store EXCEPT ![m] = Put(@, name, {})]
                      ELSE store
    IN  storeSymbols(withBucket, name, m, providesSymbols, 2)

\* scanELF, lines 189-197: the file's own exports.
recordExports(store, name, m, providesSymbols) ==
    LET withBucket == IF Len(providesSymbols) > 0
                      THEN [store EXCEPT ![m] = Put(@, name, {})]
                      ELSE store
    IN  storeSymbols(withBucket, name, m, providesSymbols, 1)

\* The walk over the buckets, given up after the first bucket.
rangeBucketFirst(bucket, todo, symName) ==
    IF todo = {}
    THEN FALSE
    ELSE symName \in bucket[CHOOSE x \in todo : TRUE]

\* resolveSymbol, lines 159-164: the walk over the machine's buckets, in the
\* order the map yields them.
RECURSIVE rangeBucket(_, _, _)
rangeBucket(bucket, todo, symName) ==
    IF todo = {}
    THEN FALSE
    ELSE LET libName == CHOOSE x \in todo : TRUE
         IN  IF symName \in bucket[libName]
             THEN TRUE
             ELSE rangeBucket(bucket, todo \ {libName}, symName)

\* resolveSymbol with the hinted library's bucket never asked for the name.
resolveSymbolAnyName(store, m, sym) ==
    IF m \notin DOMAIN store
    THEN [ok |-> FALSE, diag |-> "No provider found for machine"]
    ELSE LET bucket == store[m] IN
         IF sym.Library # ""
         THEN IF sym.Library \notin DOMAIN bucket
              THEN [ok |-> FALSE, diag |-> "Unknown library"]
              ELSE [ok |-> TRUE, diag |-> ""]
         ELSE IF \E libName \in DOMAIN bucket : sym.Name \in bucket[libName]
              THEN [ok |-> TRUE, diag |-> "Found symbol"]
              ELSE [ok |-> FALSE, diag |-> ""]

\* resolveSymbol with an unknown hinted library falling through to the walk
\* over all the buckets.
resolveSymbolFallThrough(store, m, sym) ==
    IF m \notin DOMAIN store
    THEN [ok |-> FALSE, diag |-> "No provider found for machine"]
    ELSE LET bucket == store[m] IN
         IF sym.Library # "" /\ sym.Library \in DOMAIN bucket
         THEN IF sym.Name \notin bucket[sym.Library]
              THEN [ok |-> FALSE, diag |-> "Unknown symbol for library"]
              ELSE [ok |-> TRUE, diag |-> ""]
         ELSE IF \E libName \in DOMAIN bucket : sym.Name \in bucket[libName]
              THEN [ok |-> TRUE, diag |-> "Found symbol"]
              ELSE [ok |-> FALSE, diag |-> ""]

\* resolveSymbol looking through the buckets of every machine.
resolveSymbolAnyMachine(store, m, sym) ==
    IF m \notin DOMAIN store
    THEN [ok |-> FALSE, diag |-> "No provider found for machine"]
    ELSE IF sym.Library # ""
         THEN IF \A x \in DOMAIN store : sym.Library \notin DOMAIN store[x]
              THEN [ok |-> FALSE, diag |-> "Unknown library"]
              ELSE IF \A x \in DOMAIN store :
                         sym.Library \in DOMAIN store[x] =>
                             sym.Name \notin store[x][sym.Library]
                   THEN [ok |-> FALSE, diag |-> "Unknown symbol for library"]
                   ELSE [ok |-> TRUE, diag |-> ""]
         ELSE IF \E x \in DOMAIN store :
                    \E libName \in DOMAIN store[x] : sym.Name \in store[x][libName]
              THEN [ok |-> TRUE, diag |-> "Found symbol"]
              ELSE [ok |-> FALSE, diag |-> ""]

\* resolveSymbol(path, file, sym): the boolean it returns and the line it
\* writes to stderr.
resolveSymbol(store, m, sym) ==
    IF m \notin DOMAIN store
    THEN [ok |-> FALSE, diag |-> "No provider found for machine"]
    ELSE LET bucket == store[m] IN
         IF sym.Library # ""
         THEN IF sym.Library \notin DOMAIN bucket
              THEN [ok |-> FALSE, diag |-> "Unknown library"]
              ELSE IF sym.Name \notin bucket[sym.Library]
                   THEN [ok |-> FALSE, diag |-> "Unknown symbol for library"]
                   ELSE [ok |-> TRUE, diag |-> ""]
         ELSE IF rangeBucket(bucket, DOMAIN bucket, sym.Name)
              THEN [ok |-> TRUE, diag |-> "Found symbol"]
              ELSE [ok |-> FALSE, diag |-> ""]

\* ------------------------------------------------------------- the locator

\* locateLibraryPaths(library, inputFile): the search directories that hold
\* a regular file of that name, in order.
locateLibraryPaths(d, library) ==
    LET searchPath == [k \in 1..NumDirs |-> Join(systemLibraries[k], library)]
    IN  SelectSeq(searchPath, LAMBDA p : d[p].st \notin {"absent", "notregular"})

\* The walk over the candidates with the comparison of the machines lost:
\* the first candidate that opens is returned.
RECURSIVE locateFromAnyMachine(_, _, _, _, _)
locateFromAnyMachine(d, possibles, k, m, skipped) ==
    IF k > Len(possibles)
    THEN [found |-> FALSE, path |-> RootPath, skipped |-> skipped]
    ELSE LET p == possibles[k] IN
         IF d[p].st \notin Machines
         THEN locateFromAnyMachine(d, possibles, k + 1, m, skipped)
         ELSE [found |-> TRUE, path |-> p, skipped |-> skipped]

\* The walk over the candidates given up at the first one that fails to
\* open.
RECURSIVE locateFromOpenFatal(_, _, _, _, _)
locateFromOpenFatal(d, possibles, k, m, skipped) ==
    IF k > Len(possibles)
    THEN [found |-> FALSE, path |-> RootPath, skipped |-> skipped]
    ELSE LET p == possibles[k] IN
         IF d[p].st \notin Machines
         THEN [found |-> FALSE, path |-> RootPath, skipped |-> skipped]
         ELSE IF d[p].st # m
              THEN locateFromOpenFatal(d, possibles, k + 1, m, Append(skipped, p))
              ELSE [found |-> TRUE, path |-> p, skipped |-> skipped]

\* locateLibrary, lines 83-96: the walk over the candidates from the k-th.
\* skipped: the candidates opened, found incompatible and closed.
RECURSIVE locateFrom(_, _, _, _, _)
locateFrom(d, possibles, k, m, skipped) ==
    IF k > Len(possibles)
    THEN [found |-> FALSE, path |-> RootPath, skipped |-> skipped]
    ELSE LET p == possibles[k] IN
         IF d[p].st \notin Machines
         THEN locateFrom(d, possibles, k + 1, m, skipped)
         ELSE IF d[p].st # m
              THEN locateFrom(d, possibles, k + 1, m, Append(skipped, p))
              ELSE [found |-> TRUE, path |-> p, skipped |-> skipped]

\* locateLibrary returning the first candidate that opens, of any machine.
locateLibraryAnyMachine(d, library, m) ==
    locateFromAnyMachine(d, locateLibraryPaths(d, library), 1, m, <<>>)

\* locateLibrary(library, inputFile)
locateLibrary(d, library, m) ==
    locateFrom(d, locateLibraryPaths(d, library), 1, m, <<>>)

\* What stat and elf.Open may answer for the candidates of one library: a
\* candidate after the accepted one is only stat'ed ("regular"), never opened.
Columns(e, m) ==
    IF e = "graph"
    THEN {c \in [1..NumDirs -> {"absent", m}] : \A k \in 2..NumDirs : c[k] = "absent"}
    ELSE {c \in [1..NumDirs -> Status \cup {"regular"}] :
            \A k \in 1..NumDirs :
                IF \E q \in 1..(k - 1) : c[q] = m
                THEN c[k] \in {"absent", "notregular", "regular"}
                ELSE c[k] # "regular"}

ObserveColumn(library, m) ==
    IF \E k \in 1..NumDirs : File(Join(systemLibraries[k], library)).st # "?"
    THEN {[k \in 1..NumDirs |-> File(Join(systemLibraries[k], library)).st]}
    ELSE Columns(env, m)

\* The disk once the candidates of library have been looked at.
WithColumn(library, c) ==
    [p \in DOMAIN disk \cup {Join(systemLibraries[k], library) : k \in 1..NumDirs} |->
        IF p # RootPath /\ Base(p) = library
        THEN [File(p) EXCEPT !.st = c[p[1]]]
        ELSE disk[p]]

\* The handles an accepted or skipped candidate leaves behind.
RECURSIVE openedAndClosed(_, _)
openedAndClosed(hs, skipped) ==
    IF skipped = <<>>
    THEN hs
    ELSE openedAndClosed(Append(hs, [path |-> Head(skipped), closed |-> 1]),
                         Tail(skipped))

Close(hs, h) == [hs EXCEPT ![h].closed = @ + 1]

\* ------------------------------------------------------------------ ScanPath

\* ScanPath up to its call of scanELF: elf.Open(path).
ScanPath ==
    /\ state = "init"
    /\ \E st \in ObserveStatus(File(RootPath).st, {"badelf", "EM_X86_64"}) :
        /\ disk' = Put(disk, RootPath, [File(RootPath) EXCEPT !.st = st])
        /\ IF st \in Machines
           THEN /\ handles' = Append(handles, [path |-> RootPath, closed |-> 0])
                /\ stack' = <<Frame(RootPath, Len(handles) + 1, st)>>
                /\ state' = "running"
                /\ result' = result
           ELSE /\ state' = "done"
                /\ result' = Err("open", Base(RootPath))
                /\ UNCHANGED <<handles, stack>>
    /\ UNCHANGED <<env, symbols, log>>

\* ------------------------------------------------------------------- scanELF

Running == state = "running" /\ stack # <<>>

\* scanELF, lines 170-197: read the imports, make the machine's partition,
\* read the exports and record them.
ScanEnter ==
    /\ Running
    /\ Top.pc = "enter"
    /\ LET fr == Top
           name == Base(fr.path)
           entered == Append(log, Ev("enter", name, "", "", fr.path[1], TRUE, ""))
       IN
       \E libs \in Observe(File(fr.path).libs,
                           {ReadErr} \cup {ReadOk(s) : s \in LibLists(env, fr.path)}) :
         IF libs.err
         THEN /\ disk' = [disk EXCEPT ![fr.path].libs = libs]
              /\ stack' = SetTop([fr EXCEPT !.pc = "return",
                                            !.err = Err("reader", "ImportedLibraries")])
              /\ log' = entered
              /\ UNCHANGED symbols
         ELSE
           \E prov \in Observe(File(fr.path).provides,
                               {ReadErr} \cup {ReadOk(s) : s \in SymLists(env)}) :
             /\ disk' = [disk EXCEPT ![fr.path].libs = libs,
                                     ![fr.path].provides = prov]
             /\ IF prov.err
                THEN /\ symbols' = ensureMachine(symbols, fr.m)
                     /\ stack' = SetTop([fr EXCEPT !.pc = "return",
                                                   !.err = Err("reader", "DynamicSymbols")])
                     /\ log' = entered
                ELSE /\ symbols' = recordExports(ensureMachine(symbols, fr.m),
                                                 name, fr.m, prov.v)
                     /\ stack' = SetTop([fr EXCEPT !.pc = "imports"])
                     /\ log' = IF Len(prov.v) > 0
                               THEN Append(entered,
                                           Ev("record", name, "", "", fr.path[1], TRUE, ""))
                               ELSE entered
    /\ UNCHANGED <<env, handles, state, result>>

\* The import the loop of lines 200-216 is at.
AtImport ==
    /\ Running
    /\ Top.pc = "imports"
    /\ Top.i <= Len(File(Top.path).libs.v)

\* scanELF, lines 201-204: the library is already loaded.
ImportSkip ==
    /\ AtImport
    /\ LET fr == Top
           l == File(fr.path).libs.v[fr.i]
       IN
       /\ hasLibrary(symbols, l, fr.m)
       /\ stack' = SetTop([fr EXCEPT !.i = @ + 1])
       /\ log' = Append(log, Ev("check", Base(fr.path), l, "", 0, TRUE, "Already loaded"))
    /\ UNCHANGED <<env, disk, symbols, handles, state, result>>

\* The import loop with locateLibrary's error not returned: a library that
\* is not found is passed over.
ImportLocateMissingPassed ==
    /\ state = "running" /\ stack # <<>>
    /\ Top.pc = "imports"
    /\ Top.i <= Len(File(Top.path).libs.v)
    /\ Len(stack) < MaxDepth
    /\ LET fr == Top
           l == File(fr.path).libs.v[fr.i]
           checked == Append(log, Ev("check", Base(fr.path), l, "", 0, FALSE, ""))
       IN
       /\ ~hasLibrary(symbols, l, fr.m)
       /\ \E c \in ObserveColumn(l, fr.m) :
            LET d == WithColumn(l, c)
                loc == locateLibrary(d, l, fr.m)
                hs == openedAndClosed(handles, loc.skipped)
            IN
            /\ disk' = d
            /\ IF loc.found
               THEN /\ handles' = Append(hs, [path |-> loc.path, closed |-> 0])
                    /\ stack' = Append(stack, Frame(loc.path, Len(hs) + 1, d[loc.path].st))
                    /\ log' = Append(checked,
                                     Ev("locate", Base(fr.path), l, "", loc.path[1], TRUE,
                                        "Found library"))
               ELSE /\ handles' = hs
                    /\ stack' = SetTop([fr EXCEPT !.i = @ + 1])
                    /\ log' = Append(checked,
                                     Ev("locate", Base(fr.path), l, "", 0, FALSE, ""))
    /\ UNCHANGED <<env, symbols, state, result>>

\* scanELF, lines 205-211: locate the library and recurse into it, or fail.
ImportLocate ==
    /\ AtImport
    /\ Len(stack) < MaxDepth
    /\ LET fr == Top
           l == File(fr.path).libs.v[fr.i]
           checked == Append(log, Ev("check", Base(fr.path), l, "", 0, FALSE, ""))
       IN
       /\ ~hasLibrary(symbols, l, fr.m)
       /\ \E c \in ObserveColumn(l, fr.m) :
            LET d == WithColumn(l, c)
                loc == locateLibrary(d, l, fr.m)
                hs == openedAndClosed(handles, loc.skipped)
            IN
            /\ disk' = d
            /\ IF loc.found
               THEN /\ handles' = Append(hs, [path |-> loc.path, closed |-> 0])
                    /\ stack' = Append(stack, Frame(loc.path, Len(hs) + 1, d[loc.path].st))
                    /\ log' = Append(checked,
                                     Ev("locate", Base(fr.path), l, "", loc.path[1], TRUE,
                                        "Found library"))
               ELSE /\ handles' = hs
                    /\ stack' = SetTop([fr EXCEPT !.pc = "return",
                                                  !.err = Err("failed to locate", l)])
                    /\ log' = Append(checked,
                                     Ev("locate", Base(fr.path), l, "", 0, FALSE, ""))
    /\ UNCHANGED <<env, symbols, state, result>>

\* scanELF, lines 218-222: the imports are done; read the imported symbols.
LoadSymbols ==
    /\ Running
    /\ Top.pc = "imports"
    /\ Top.i > Len(File(Top.path).libs.v)
    /\ LET fr == Top IN
       \E syms \in Observe(File(fr.path).syms,
                           {ReadErr} \cup {ReadOk(s) : s \in RefLists(env, fr.path)}) :
         /\ disk' = [disk EXCEPT ![fr.path].syms = syms]
         /\ stack' = SetTop(IF syms.err
                            THEN [fr EXCEPT !.pc = "return",
                                            !.err = Err("reader", "ImportedSymbols")]
                            ELSE [fr EXCEPT !.pc = "resolve"])
    /\ UNCHANGED <<env, symbols, handles, log, state, result>>

\* The resolve loop with resolveSymbol's answer not looked at.
ResolveStepUnchecked ==
    /\ state = "running" /\ stack # <<>>
    /\ Top.pc = "resolve"
    /\ Top.j <= Len(File(Top.path).syms.v)
    /\ LET fr == Top
           sym == File(fr.path).syms.v[fr.j]
           r == resolveSymbol(symbols, fr.m, sym)
       IN
       /\ stack' = SetTop([fr EXCEPT !.j = @ + 1])
       /\ log' = Append(log, Ev("resolve", Base(fr.path), sym.Name, sym.Library,
                                fr.path[1], r.ok, r.diag))
    /\ UNCHANGED <<env, disk, symbols, handles, state, result>>

\* scanELF, lines 227-232: resolve the next imported symbol.
ResolveStep ==
    /\ Running
    /\ Top.pc = "resolve"
    /\ Top.j <= Len(File(Top.path).syms.v)
    /\ LET fr == Top
           sym == File(fr.path).syms.v[fr.j]
           r == resolveSymbol(symbols, fr.m, sym)
       IN
       /\ stack' = SetTop(IF r.ok
                          THEN [fr EXCEPT !.j = @ + 1]
                          ELSE [fr EXCEPT !.pc = "return",
                                          !.err = Err("failed to resolve symbol", sym.Name)])
       /\ log' = Append(log, Ev("resolve", Base(fr.path), sym.Name, sym.Library,
                                fr.path[1], r.ok, r.diag))
    /\ UNCHANGED <<env, disk, symbols, handles, state, result>>

\* scanELF has returned: with an error, or nil after the last symbol (line 234).
Returning ==
    /\ Running
    /\ \/ Top.pc = "return"
       \/ Top.pc = "resolve" /\ Top.j > Len(File(Top.path).syms.v)

\* The return into the calling scanELF with the library's error dropped: the
\* caller goes on to its next import.
ReturnToCallerErrDropped ==
    /\ state = "running" /\ stack # <<>>
    /\ \/ Top.pc = "return"
       \/ Top.pc = "resolve" /\ Top.j > Len(File(Top.path).syms.v)
    /\ Len(stack) > 1
    /\ LET fr == Top
           caller == stack[Len(stack) - 1]
           rest == SubSeq(stack, 1, Len(stack) - 2)
       IN
       /\ handles' = [handles EXCEPT ![fr.h].closed = @ + 1]
       /\ stack' = Append(rest, [caller EXCEPT !.i = @ + 1])
       /\ log' = Append(log, Ev("return", Base(fr.path), fr.err.arg, "", fr.path[1],
                                fr.err = NoErr, fr.err.kind))
    /\ UNCHANGED <<env, disk, symbols, state, result>>

\* The return into the calling scanELF with lib.Close() missing on the error
\* path.
ReturnToCallerErrNotClosed ==
    /\ state = "running" /\ stack # <<>>
    /\ \/ Top.pc = "return"
       \/ Top.pc = "resolve" /\ Top.j > Len(File(Top.path).syms.v)
    /\ Len(stack) > 1
    /\ LET fr == Top
           caller == stack[Len(stack) - 1]
           rest == SubSeq(stack, 1, Len(stack) - 2)
       IN
       /\ handles' = IF fr.err = NoErr
                     THEN [handles EXCEPT ![fr.h].closed = @ + 1]
                     ELSE handles
       /\ stack' = Append(rest, IF fr.err = NoErr
                                THEN [caller EXCEPT !.i = @ + 1]
                                ELSE [caller EXCEPT !.pc = "return", !.err = fr.err])
       /\ log' = Append(log, Ev("return", Base(fr.path), fr.err.arg, "", fr.path[1],
                                fr.err = NoErr, fr.err.kind))
    /\ UNCHANGED <<env, disk, symbols, state, result>>

\* scanELF returns into the scanELF that called it, lines 211-215: the
\* library's file is closed, and an error is passed on.
ReturnToCaller ==
    /\ Returning
    /\ Len(stack) > 1
    /\ LET fr == Top
           caller == stack[Len(stack) - 1]
           rest == SubSeq(stack, 1, Len(stack) - 2)
       IN
       /\ handles' = Close(handles, fr.h)
       /\ stack' = Append(rest, IF fr.err = NoErr
                                THEN [caller EXCEPT !.i = @ + 1]
                                ELSE [caller EXCEPT !.pc = "return", !.err = fr.err])
       /\ log' = Append(log, Ev("return", Base(fr.path), fr.err.arg, "", fr.path[1],
                                fr.err = NoErr, fr.err.kind))
    /\ UNCHANGED <<env, disk, symbols, state, result>>

\* scanELF returns into ScanPath, lines 106-110, and the deferred Close runs.
ReturnToScanPath ==
    /\ Returning
    /\ Len(stack) = 1
    /\ LET fr == Top IN
       /\ handles' = Close(handles, fr.h)
       /\ stack' = <<>>
       /\ state' = "done"
       /\ result' = fr.err
       /\ log' = Append(log, Ev("return", Base(fr.path), fr.err.arg, "", fr.path[1],
                                fr.err = NoErr, fr.err.kind))
    /\ UNCHANGED <<env, disk, symbols>>

Next ==
    \/ ScanPath
    \/ ScanEnter
    \/ ImportSkip
    \/ ImportLocate
    \/ LoadSymbols
    \/ ResolveStep
    \/ ReturnToCaller
    \/ ReturnToScanPath

Spec == Init /\ [][Next]_vars

\* ------------------------------------------------- resolveSymbol on any store

\* The stores resolveSymbol is asked on: the machine of the asking file has
\* its partition (scanELF makes it before anything else), another machine may
\* have one too (an earlier ScanPath on the same store), and a bucket is never
\* empty.
Buckets == {{"f"}, {"g"}, {"f", "g"}}
Partitions == UNION {[S -> Buckets] : S \in SUBSET {"B", "C"}}
Stores(m) ==
    {[x \in {m} |-> p] : p \in Partitions}
        \cup {[x \in Machines |-> IF x = m THEN p ELSE q] : p, q \in Partitions}
QueryRefs == [Name : {"f", "h"}, Library : {"", "B", "C"}]

\* A file of machine m, with no exports of its own and the one imported
\* symbol sym, about to resolve it against the store.
InitResolve ==
    \E m \in Machines, sym \in QueryRefs :
      \E store \in Stores(m) :
        /\ env = "store"
        /\ disk = [p \in {RootPath} |->
                    [st |-> m, libs |-> ReadOk(<<>>), provides |-> ReadOk(<<>>),
                     syms |-> ReadOk(<<sym>>)]]
        /\ symbols = store
        /\ stack = <<[Frame(RootPath, 1, m) EXCEPT !.pc = "resolve"]>>
        /\ handles = <<[path |-> RootPath, closed |-> 0]>>
        /\ log = <<>>
        /\ state = "running"
        /\ result = NoErr

NextResolve ==
    \/ ResolveStep
    \/ ReturnToScanPath

SpecResolve == InitResolve /\ [][NextResolve]_vars

\* ------------------------------------------------------------ reading the log

\* The events of one kind.
Events(op) == {k \in 1..Len(log) : log[k].op = op}
\* How often scanELF was entered for library identity n.
EnterCount(n) == Cardinality({k \in Events("enter") : log[k].name = n})
\* How often a bucket was made for library identity n.
RecordCount(n) == Cardinality({k \in Events("record") : log[k].name = n})
\* The files scanELF was entered for.
EnteredPaths == {Join(log[k].dir, log[k].name) : k \in Events("enter")}
\* The machine of the run: the root file's.
RootMachine == File(RootPath).st
\* The libraries the files scanned under identity n import.
ImportsOf(n) ==
    UNION {Range(File(p).libs.v) : p \in {q \in EnteredPaths : Base(q) = n}}
\* The library identities reachable from the set S through imports.
RECURSIVE Closure(_)
Closure(S) ==
    LET T == S \cup UNION {ImportsOf(n) : n \in S}
    IN  IF T = S THEN S ELSE Closure(T)
\* The library identities reachable from the file at path.
ReachableFrom(path) == Closure(Range(File(path).libs.v))
\* Every name a scanned file of identity n exports is in n's bucket.
ExportsRecorded(n, m) ==
    \A p \in {q \in EnteredPaths : Base(q) = n} :
        Range(File(p).provides.v) # {} =>
            /\ hasLibrary(symbols, n, m)
            /\ Range(File(p).provides.v) \subseteq symbols[m][n]

\* -------------------------------------------------------------------- claims

\* C1: scan terminates for every finite import graph, cycles and libraries
\* without exports included.  The store only grows, and with the file it
\* decides every step of a scan; so a file entered again while an earlier
\* scan of it is unfinished, with the store's libraries as they were at that
\* earlier entry, repeats the steps in between for ever, and a scan that
\* never does this ends (there are finitely many files and stores).  Scan
\* terminates exactly if no two activations on the stack are of the same file
\* with the same libraries in the store at their entry.
C1_ScanTerminates ==
    \A a, b \in 1..Len(stack) :
        (a < b /\ stack[a].path = stack[b].path) => stack[a].seen # stack[b].seen

\* C2: whenever a file resolves its imported symbols, every library identity
\* reachable from it through imports has had its scan entered and its exports
\* recorded.  Stated for the runs in which no identity is scanned twice, so
\* that what refutes it owes nothing to a library scanned again.
C2_SubtreeScannedBeforeResolve ==
    (Running /\ Top.pc = "resolve" /\ \A n \in Names : EnterCount(n) <= 1) =>
        \A n \in ReachableFrom(Top.path) :
            EnterCount(n) > 0 /\ ExportsRecorded(n, Top.m)

\* C3: when the top-level scan returns success, every library identity
\* reachable from the root was scanned, and every imported symbol of every
\* scanned file resolves against the store as it is at the end.
C3_SuccessResolvesClosure ==
    (state = "done" /\ result = NoErr) =>
        /\ \A n \in ReachableFrom(RootPath) : EnterCount(n) > 0
        /\ \A p \in EnteredPaths :
              /\ File(p).syms.known
              /\ \A k \in 1..Len(File(p).syms.v) :
                    resolveSymbol(symbols, RootMachine, File(p).syms.v[k]).ok

\* C3's case: a successful scan of a root with two libraries below it, three
\* symbols resolved.
C3_Witness ==
    /\ state = "done"
    /\ result = NoErr
    /\ Cardinality(ReachableFrom(RootPath) \ {"A"}) = 2
    /\ Cardinality({k \in Events("resolve") : log[k].ok}) >= 3

\* The store's buckets for the machine of the run.
RootBuckets == symbols[RootMachine]
\* The file a resolve or enter event is about.
EventPath(k) == Join(log[k].dir, log[k].name)

\* C4: a reference without a library hint resolves exactly if some bucket
\* recorded under the file's machine holds the symbol name; it fails when
\* that machine has no bucket at all.
C4_UnhintedResolve ==
    \A k \in Events("resolve") :
        log[k].lib = "" =>
            (log[k].ok <=> \E l \in DOMAIN RootBuckets : log[k].arg \in RootBuckets[l])

\* C4's case: an unhinted reference resolved from a store of two libraries,
\* one of which lacks the name.
C4_Witness ==
    \E k \in Events("resolve") :
        /\ log[k].lib = ""
        /\ log[k].ok
        /\ Cardinality(DOMAIN RootBuckets) = 2
        /\ \E l \in DOMAIN RootBuckets : log[k].arg \notin RootBuckets[l]

RecordedBefore(l, k) == \E r \in Events("record") : r < k /\ log[r].name = l

Matching(l) ==
    {q \in 1..NumDirs : File(Join(systemLibraries[q], l)).st = RootMachine}

\* C7: locateLibrary returns the candidate of the first search directory
\* that holds a regular file of the requested machine, and fails exactly if
\* no search directory holds one.
C7_LocateFirstMatch ==
    \A k \in Events("locate") :
        /\ log[k].ok <=> Matching(log[k].arg) # {}
        /\ log[k].ok =>
              \E q \in Matching(log[k].arg) :
                  /\ log[k].dir = systemLibraries[q]
                  /\ \A o \in Matching(log[k].arg) : q <= o

\* C7's case: the library was found in the second directory, behind a file
\* of the same name and another machine in the first.
C7_Witness ==
    \E k \in Events("locate") :
        /\ log[k].ok
        /\ log[k].dir = systemLibraries[2]
        /\ File(Join(systemLibraries[1], log[k].arg)).st \in Machines \ {RootMachine}

\* The scanned files that import library n.
Dependents(n) ==
    {p \in EnteredPaths : File(p).libs.known /\ n \in Range(File(p).libs.v)}
\* The scanned files of identity n that export at least one symbol.
Exporting(n) ==
    {p \in EnteredPaths : Base(p) = n /\ Range(File(p).provides.v) # {}}

\* C8: a library with exports that two scanned files import has its exports
\* recorded exactly once, its bucket holds exactly them, and every reference
\* of those files to one of its symbols, hinted to it or not, resolves.
C8_DiamondRecordedOnce ==
    \A n \in Names :
        (Cardinality(Dependents(n)) >= 2 /\ Exporting(n) # {}) =>
            /\ RecordCount(n) = 1
            /\ n \in DOMAIN RootBuckets
            /\ \A p \in Exporting(n) : RootBuckets[n] = Range(File(p).provides.v)
            /\ \A k \in Events("resolve") :
                  (/\ EventPath(k) \in Dependents(n)
                   /\ log[k].lib \in {"", n}
                   /\ log[k].arg \in RootBuckets[n]) => log[k].ok

\* C8's case: two different scanned files, neither the library itself,
\* import it, and each has resolved a reference to one of its symbols.
C8_Witness ==
    \E n \in Names :
        /\ RecordCount(n) = 1
        /\ \E p, q \in Dependents(n) :
              /\ p # q
              /\ Base(p) # n
              /\ Base(q) # n
              /\ \A x \in {p, q} :
                    \E k \in Events("resolve") :
                        /\ EventPath(k) = x
                        /\ log[k].ok
                        /\ log[k].arg \in RootBuckets[n]

\* C9: scanELF is never entered a second time for a library it has already
\* entered.  Stated for one and the same file, so that what refutes it owes
\* nothing to two files of one name.
C9_ScannedAtMostOnce ==
    \A a, b \in Events("enter") : EventPath(a) = EventPath(b) => a = b

\* C10: once a symbol has failed to resolve, nothing is resolved, checked,
\* located, entered or recorded any more: every scanELF on the stack returns
\* the failure to resolve that symbol, and so does ScanPath.
C10_FailFast ==
    \A k \in Events("resolve") :
        ~log[k].ok =>
            /\ \A q \in (k + 1)..Len(log) :
                  /\ log[q].op = "return"
                  /\ ~log[q].ok
                  /\ log[q].diag = "failed to resolve symbol"
                  /\ log[q].arg = log[k].arg
            /\ state = "done" => result = Err("failed to resolve symbol", log[k].arg)

\* C10's case: a symbol failed to resolve two calls below ScanPath, after
\* another had resolved and with an import of the root still to come, and
\* the scan has returned.
C10_Witness ==
    \E k \in Events("resolve") :
        /\ ~log[k].ok
        /\ \E q \in 1..(k - 1) : log[q].op = "resolve" /\ log[q].ok
        /\ Len(log) >= k + 2
        /\ Len(File(RootPath).libs.v) = 2
        /\ Cardinality({c \in Events("check") : log[c].name = Base(RootPath)}) = 1
        /\ state = "done"

\* C11: when an imported library that has no bucket yet is not found in any
\* search directory, nothing is checked, located, entered, recorded or
\* resolved any more: every scanELF on the stack returns the failure to
\* locate that library, the importing file first and without any of its
\* imported symbols resolved, and so does ScanPath.
C11_MissingDependencyFails ==
    \A k \in Events("locate") :
        ~log[k].ok =>
            /\ Matching(log[k].arg) = {}
            /\ \A q \in (k + 1)..Len(log) :
                  /\ log[q].op = "return"
                  /\ ~log[q].ok
                  /\ log[q].diag = "failed to locate"
                  /\ log[q].arg = log[k].arg
            /\ k < Len(log) =>
                  /\ log[k + 1].name = log[k].name
                  /\ ~File(EventPath(k + 1)).syms.known
                  /\ \A r \in Events("resolve") : EventPath(r) # EventPath(k + 1)
            /\ state = "done" => result = Err("failed to locate", log[k].arg)

\* C11's case: a library imported two calls below ScanPath was not found,
\* after exports had been recorded and with an import of the root still to
\* come, and the scan has returned.
C11_Witness ==
    \E k \in Events("locate") :
        /\ ~log[k].ok
        /\ \E q \in 1..(k - 1) : log[q].op = "record"
        /\ Len(log) >= k + 2
        /\ Len(File(RootPath).libs.v) = 2
        /\ Cardinality({c \in Events("check") : log[c].name = Base(RootPath)}) = 1
        /\ state = "done"

\* C12: a bucket that is in the store stays in it, under the same machine
\* and library name and with the same symbols, through every later step of
\* the run, and a step that resolves a symbol leaves the whole store as it
\* was.
C12_BucketsNeverChange ==
    [][/\ \A m \in DOMAIN symbols :
            /\ m \in DOMAIN symbols'
            /\ \A n \in DOMAIN symbols[m] :
                  /\ n \in DOMAIN symbols'[m]
                  /\ symbols'[m][n] = symbols[m][n]
       /\ (Len(log') > Len(log) /\ log'[Len(log')].op = "resolve") =>
              symbols' = symbols]_vars

\* C12's case: after a file's exports were recorded, another library's were
\* recorded and a symbol was resolved, and the first bucket is the first
\* file's export list.
C12_Witness ==
    \E k \in Events("record") :
        /\ \E r \in Events("record") : r > k /\ log[r].name # log[k].name
        /\ \E q \in Events("resolve") : q > k
        /\ log[k].name \in DOMAIN RootBuckets
        /\ RootBuckets[log[k].name] = Range(File(EventPath(k)).provides.v)

\* The buckets in the store under the machines other than the run's that
\* would answer the k-th event's reference: the hinted library's, or any for
\* a reference without a hint, holding the name.
OtherMachineProviders(k) ==
    {<<x, l>> \in (DOMAIN symbols \ {RootMachine}) \X Names :
        /\ l \in DOMAIN symbols[x]
        /\ log[k].lib \in {"", l}
        /\ log[k].arg \in symbols[x][l]}

\* C13: a reference of a file resolves only by a bucket recorded under the
\* file's own machine: the hinted library's, or any for a reference without a
\* hint; what another machine's partition holds never makes it resolve.
C13_NoCrossResolve ==
    \A k \in Events("resolve") :
        log[k].ok =>
            \E l \in DOMAIN RootBuckets :
                log[k].lib \in {"", l} /\ log[k].arg \in RootBuckets[l]

\* C13's case: a hinted reference has failed although the other machine's
\* partition holds the hinted library with the name in its bucket, and the
\* file's own partition holds buckets too.
C13_Witness ==
    \E k \in Events("resolve") :
        /\ ~log[k].ok
        /\ log[k].lib # ""
        /\ OtherMachineProviders(k) # {}
        /\ RootBuckets # << >>
        /\ state = "done"

\* C14: no handle is ever closed twice, the handles of the scanELF calls in
\* progress are open, and when ScanPath has returned, with nil or with an
\* error, every handle that was opened has been closed exactly once.
C14_HandlesClosedOnce ==
    /\ \A h \in 1..Len(handles) : handles[h].closed <= 1
    /\ \A a \in 1..Len(stack) : handles[stack[a].h].closed = 0
    /\ state = "done" => \A h \in 1..Len(handles) : handles[h].closed = 1

\* C14's case: ScanPath has returned an error after opening the root, a
\* candidate of another machine and a dependency two calls below it.
C14_Witness ==
    /\ state = "done"
    /\ result # NoErr
    /\ \E h \in 1..Len(handles) : File(handles[h].path).st \in Machines \ {RootMachine}
    /\ \E k \in Events("enter") : \E q \in Events("enter") :
          k < q /\ log[k].dir # RootDir /\ ~\E r \in Events("return") : k < r /\ r < q

\* How many scanELF calls are in progress after the k-th event.
Depth(k) ==
    Cardinality({e \in Events("enter") : e <= k})
        - Cardinality({r \in Events("return") : r <= k})
\* Events a and b, in this order, are steps of one scanELF call: no call
\* that was in progress at a has returned by b.
SameCall(a, b) ==
    /\ a < b
    /\ Depth(a) = Depth(b)
    /\ \A q \in a..b : Depth(q) >= Depth(a)
\* The entry of the scanELF call that the check event c is a step of.
CallOf(c) == CHOOSE e \in Events("enter") : SameCall(e, c)
\* The position of library l in the imports of the file entered at e.
ImportIndex(e, l) ==
    CHOOSE i \in 1..Len(File(EventPath(e)).libs.v) : File(EventPath(e)).libs.v[i] = l

\* C15: the imports of a file are checked in the order ImportedLibraries
\* gave them, the first one first and none left out in between, and between
\* the check of one import and the check of the next every scanELF that was
\* entered has returned.  Stated of the check the run has just made (the
\* last event, or the one before a locate): every check is at some point
\* the latest, and the events before it never change.
C15_ImportsInOrderDepthFirst ==
    \A c \in Events("check") \cap {Len(log) - 1, Len(log)} :
        LET e == CallOf(c)
            earlier == {b \in Events("check") : SameCall(b, c) /\ SameCall(e, b)}
        IN  /\ log[c].arg \in Range(File(EventPath(e)).libs.v)
            /\ ImportIndex(e, log[c].arg) = Cardinality(earlier) + 1
            /\ \A b \in earlier :
                  /\ ImportIndex(e, log[b].arg) < ImportIndex(e, log[c].arg)
                  /\ \A x \in Events("enter") :
                        (b < x /\ x < c) =>
                            \E r \in Events("return") :
                                x < r /\ r < c /\ EventPath(r) = EventPath(x)

\* C15's case: the root's second import is checked after its first import
\* was located and scanned, a library below it included.
C15_Witness ==
    \E b \in Events("check"), c \in Events("check") \cap {Len(log) - 1, Len(log)} :
        /\ SameCall(b, c)
        /\ log[b].name = Base(RootPath)
        /\ Depth(b) = 1
        /\ Cardinality({x \in Events("enter") : b < x /\ x < c}) = 2
        /\ \E q \in Events("resolve") : b < q /\ q < c

\* The scanELF calls in progress, past the recording of their exports, of
\* files that export at least one symbol.
Exporters ==
    {a \in 1..Len(stack) :
        stack[a].pc # "enter" /\ Range(File(stack[a].path).provides.v) # {}}

\* C16: a file that exports at least one symbol has, from the start of its
\* import loop to its return, a bucket under its name that holds exactly its
\* exported names; a library that imports it back while its scan is in
\* progress finds it already loaded, and a reference to one of its exported
\* names, hinted to it or not, resolves.
C16_MarkedOnEntry ==
    /\ \A a \in Exporters :
          /\ stack[a].m \in DOMAIN symbols
          /\ Base(stack[a].path) \in DOMAIN symbols[stack[a].m]
          /\ symbols[stack[a].m][Base(stack[a].path)]
                = Range(File(stack[a].path).provides.v)
    /\ \A c \in Events("check") \cap {Len(log) - 1, Len(log)} :
          (\E a \in Exporters : log[c].arg = Base(stack[a].path)) => log[c].ok
    /\ \A q \in Events("resolve") \cap {Len(log)} :
          (\E a \in Exporters :
              /\ log[q].lib \in {"", Base(stack[a].path)}
              /\ log[q].arg \in Range(File(stack[a].path).provides.v)) => log[q].ok

\* C16's case: a library imported by a file whose scan is in progress has
\* imported that file back, found it already loaded, and has just resolved a
\* reference hinted to it.
C16_Witness ==
    \E a \in Exporters :
        /\ a < Len(stack)
        /\ Base(stack[a].path) # Base(Top.path)
        /\ \E c \in Events("check") :
              /\ log[c].name = Base(Top.path)
              /\ log[c].arg = Base(stack[a].path)
              /\ log[c].ok
        /\ log[Len(log)].op = "resolve"
        /\ log[Len(log)].ok
        /\ log[Len(log)].lib = Base(stack[a].path)

\* The scanned files whose DynamicSymbols gave an empty list.
ZeroExport ==
    {p \in EnteredPaths :
        File(p).provides.known /\ ~File(p).provides.err /\ File(p).provides.v = <<>>}

\* C17 as claimed: the store never has a bucket under the name of a scanned
\* file that exports no symbols, and no bucket is empty.
C17_ZeroExportIdentityHasNoBucket ==
    \A m \in DOMAIN symbols :
        /\ \A p \in ZeroExport : Base(p) \notin DOMAIN symbols[m]
        /\ \A n \in DOMAIN symbols[m] : symbols[m][n] # {}

\* C17 as amended: the store has a bucket under a name only if a scanned
\* file of that name exports at least one symbol, the bucket being that
\* file's exports; so a name under which only files without exports were
\* scanned has no bucket, also after their scans have returned; and no
\* bucket is empty.
C17_ZeroExportNeverRegisters ==
    \A m \in DOMAIN symbols :
        \A n \in DOMAIN symbols[m] :
            /\ symbols[m][n] # {}
            /\ \E p \in EnteredPaths \ ZeroExport :
                  Base(p) = n /\ symbols[m][n] = Range(File(p).provides.v)

\* C17's case: the scan of a library without exports has returned nil, the
\* store holds a bucket of another library and none under its name.
C17_Witness ==
    \E r \in Events("return") :
        /\ log[r].ok
        /\ EventPath(r) \in ZeroExport
        /\ log[r].dir # RootDir
        /\ RootMachine \in DOMAIN symbols
        /\ DOMAIN RootBuckets # {}
        /\ log[r].name \notin DOMAIN RootBuckets

\* C18: every file scanELF is entered for has the machine of the root file,
\* every scanELF call works under that machine, and the store has no
\* partition but that machine's.
C18_OneMachinePerScan ==
    /\ \A p \in EnteredPaths : File(p).st = RootMachine
    /\ \A a \in 1..Len(stack) : stack[a].m = RootMachine
    /\ DOMAIN symbols \subseteq {RootMachine}

\* C18's case: a library was scanned and registered from the second search
\* directory, the first one holding a file of that name and another machine.
C18_Witness ==
    \E k \in Events("record") :
        /\ log[k].dir = systemLibraries[2]
        /\ File(Join(systemLibraries[1], log[k].name)).st \in Machines \ {RootMachine}
        /\ log[k].name \in DOMAIN RootBuckets

\* C19: a reference without a library hint to a name that the referring
\* file exports itself resolves, whatever the libraries it imports export.
C19_OwnExportResolves ==
    \A q \in Events("resolve") :
        (log[q].lib = "" /\ log[q].arg \in Range(File(EventPath(q)).provides.v)) =>
            log[q].ok

\* C19's case: a file that imports a library with exports has resolved an
\* unhinted reference to a name that no bucket but its own holds.
C19_Witness ==
    \E q \in Events("resolve") :
        /\ log[q].lib = ""
        /\ log[q].ok
        /\ log[q].arg \in Range(File(EventPath(q)).provides.v)
        /\ File(EventPath(q)).libs.v # <<>>
        /\ Cardinality(DOMAIN RootBuckets) >= 2
        /\ \A n \in DOMAIN RootBuckets \ {log[q].name} : log[q].arg \notin RootBuckets[n]

\* The positions in systemLibraries that hold a regular file named l that
\* elf.Open fails on.
Unparsable(l) ==
    {q \in 1..NumDirs : File(Join(systemLibraries[q], l)).st = "badelf"}

\* C20: a candidate that elf.Open fails on changes nothing in what the
\* locator finds: the library is found exactly if a search directory holds a
\* file of the machine, before or after the unparsable one; if none does the
\* scan fails as for a library that is missing.  ScanPath returns the error
\* of elf.Open only if the root file failed to open, and then nothing was
\* scanned.
C20_UnparsableCandidateSkipped ==
    /\ \A k \in Events("locate") :
          Unparsable(log[k].arg) # {} =>
              /\ log[k].ok <=> Matching(log[k].arg) # {}
              /\ (state = "done" /\ ~log[k].ok) =>
                     result = Err("failed to locate", log[k].arg)
    /\ \A h \in 1..Len(handles) : File(handles[h].path).st \in Machines
    /\ (state = "done" /\ result.kind = "open") =>
          (File(RootPath).st = "badelf" /\ log = <<>> /\ handles = <<>>)
    /\ (state = "done" /\ File(RootPath).st = "badelf") =>
          result = Err("open", Base(RootPath))

\* C20's case: the first search directory holds a file that fails to open,
\* the library was found in the second, and its scan has been entered.
C20_Witness ==
    \E k \in Events("locate") :
        /\ log[k].ok
        /\ log[k].dir = systemLibraries[2]
        /\ Unparsable(log[k].arg) = {1}
        /\ \E e \in Events("enter") : e > k /\ EventPath(e) = Join(log[k].dir, log[k].arg)
=============================================================================
